---- MODULE Spec2Model ----
(***************************************************************************)
(* Model of the TheReview backend: the role/permission resolver and the    *)
(* user-management handlers of app/api/v1/user.py, and the review store of *)
(* app/services/review_service.py over the reviews table.                  *)
(*                                                                         *)
(* Python values are encoded as follows.                                   *)
(*   Optional[T]   : None is {} and a present value v is {v}.              *)
(*   List[UserRole]: the set of its elements (the code only tests `in`).   *)
(*   dict          : a function whose domain is the set of its keys.       *)
(*   a result of check_permission: "True", "False", "None" (the value the  *)
(*   expression `x or (None and y)` yields) or "TypeError" (raised by      *)
(*   `role in None`).                                                      *)
(***************************************************************************)
EXTENDS Integers, FiniteSets, Sequences, TLC

VARIABLES
    users,                    \* the users collection: _id -> document
    USER_CUSTOM_PERMISSIONS,  \* models/user.py: user id -> override dict
    reviews,                  \* the committed rows of the reviews table
    next_id,                  \* the next fresh review id (uuid4)
    sessions,                 \* concurrent create_review requests in flight
    tasks,                    \* the requests in flight and how far each has got
    last                      \* the last call and what it returned or raised

permVars == <<users, USER_CUSTOM_PERMISSIONS>>
reviewVars == <<reviews, next_id>>
raceVars == <<sessions, tasks>>
vars == <<users, USER_CUSTOM_PERMISSIONS, reviews, next_id, sessions, tasks, last>>

\* The parts of the state a specification does not use stay as they start.
NoReviews == reviews = {} /\ next_id = 1
NoRaces == sessions = <<>> /\ tasks = <<>>

(***************************************************************************)
(* models/user.py                                                          *)
(***************************************************************************)
ADMIN == "admin"
TEACHER == "teacher"
STUDENT == "student"
UserRole == {ADMIN, TEACHER, STUDENT}

\* dict.get(key, default)
Get(d, k, default) == IF k \in DOMAIN d THEN d[k] ELSE default

None == {}
Some(v) == {v}
Val(o) == CHOOSE v \in o : TRUE
EmptyDict == [k \in {} |-> None]

ListFields == {"can_create", "can_view", "can_update", "can_delete"}
PermFields == ListFields \cup {"can_manage_all"}

ROLE_PERMISSIONS ==
    [r \in UserRole |->
        CASE r = ADMIN ->
               [can_create |-> Some({ADMIN, TEACHER, STUDENT}),
                can_view |-> Some({ADMIN, TEACHER, STUDENT}),
                can_update |-> Some({ADMIN, TEACHER, STUDENT}),
                can_delete |-> Some({ADMIN, TEACHER, STUDENT}),
                can_manage_all |-> Some(TRUE)]
          [] r = TEACHER ->
               [can_create |-> Some({STUDENT}),
                can_view |-> Some({TEACHER, STUDENT}),
                can_update |-> Some({STUDENT}),
                can_delete |-> Some({STUDENT}),
                can_manage_all |-> Some(FALSE)]
          [] r = STUDENT ->
               [can_create |-> Some({}),
                can_view |-> Some({STUDENT}),
                can_update |-> Some({}),
                can_delete |-> Some({}),
                can_manage_all |-> Some(FALSE)]]

\* The values a field of CustomPermissionModel can take once it is set.
FieldValues(f) ==
    IF f = "can_manage_all"
    THEN {None, Some(TRUE), Some(FALSE)}
    ELSE {None} \cup {Some(S) : S \in SUBSET UserRole}

\* CustomPermissionModel.dict(exclude_unset=True): the fields the request
\* set, each with the value it gave (None included); n bounds how many
\* fields a request sets.
CustomPermissionModel(n) ==
    LET lists == UNION {[F -> FieldValues("can_create")] : F \in SUBSET ListFields}
        alls == {EmptyDict} \cup
                {[k \in {"can_manage_all"} |-> v] : v \in FieldValues("can_manage_all")}
    IN  {d \in {l @@ m : l \in lists, m \in alls} : Cardinality(DOMAIN d) <= n}

(***************************************************************************)
(* api/v1/user.py: the permission resolver                                 *)
(***************************************************************************)
\* Variant: the lists of base and override are united instead of replaced.
DictMergeUnion(base, custom) ==
    [k \in DOMAIN base \cup DOMAIN custom |->
        IF k \in DOMAIN custom /\ k \in DOMAIN base
           /\ k \in ListFields /\ custom[k] # None /\ base[k] # None
        THEN Some(Val(base[k]) \cup Val(custom[k]))
        ELSE IF k \in DOMAIN custom THEN custom[k] ELSE base[k]]

\* {**base, **custom}
DictMerge(base, custom) ==
    [k \in DOMAIN base \cup DOMAIN custom |->
        IF k \in DOMAIN custom THEN custom[k] ELSE base[k]]

\* Variant: the stored value is taken for a role without conversion.
UserRoleUnchecked(value) == value

\* UserRole(value): the member of the enumeration with that value; any other
\* value raises ValueError.
UserRoleOf(value) == IF value \in UserRole THEN value ELSE "ValueError"

get_user_role(user) == UserRoleOf(Get(user, "role", STUDENT))

\* What a call that returns a dict gives when it raises instead.
Raise(error) == [raised |-> error]
Raised(result) == "raised" \in DOMAIN result

get_user_permissions(user) ==
    LET role == get_user_role(user)
        base == Get(ROLE_PERMISSIONS, role, EmptyDict)
        custom == Get(USER_CUSTOM_PERMISSIONS, user["_id"], EmptyDict)
    IN  IF role = "ValueError" THEN Raise("ValueError") ELSE DictMerge(base, custom)

Actions == {"create", "view", "update", "delete"}

\* Variant: can_manage_all also covers the admin role.
PermExprManageAllAdmin(perms, key, target_role) ==
    LET lst == Get(perms, key, Some({}))
        all == Get(perms, "can_manage_all", Some(FALSE))
    IN  IF lst = None THEN "TypeError"
        ELSE IF target_role \in Val(lst) THEN "True"
        ELSE IF all = None THEN "None"
        ELSE IF ~Val(all) THEN "False"
        ELSE "True"

\* target_role in perms.get(key, []) or
\*     (perms.get("can_manage_all", False) and target_role != UserRole.ADMIN)
PermExpr(perms, key, target_role) ==
    LET lst == Get(perms, key, Some({}))
        all == Get(perms, "can_manage_all", Some(FALSE))
    IN  IF lst = None THEN "TypeError"
        ELSE IF target_role \in Val(lst) THEN "True"
        ELSE IF all = None THEN "None"
        ELSE IF ~Val(all) THEN "False"
        ELSE IF target_role # ADMIN THEN "True" ELSE "False"

\* Variant: without the teacher/admin rule (as in utils/user_managemet.py).
check_permission_no_teacher_rule(current_user, target_role, action) ==
    LET perms == get_user_permissions(current_user)
    IN  IF Raised(perms) THEN perms.raised
        ELSE IF action \in Actions
        THEN PermExpr(perms, "can_" \o action, target_role)
        ELSE "False"

check_permission(current_user, target_role, action) ==
    LET perms == get_user_permissions(current_user)
    IN  IF Raised(perms) THEN perms.raised
        ELSE IF get_user_role(current_user) = TEACHER /\ target_role = ADMIN
        THEN "False"
        ELSE IF action \in Actions
        THEN PermExpr(perms, "can_" \o action, target_role)
        ELSE "False"

\* `not check_permission(...)` / `if check_permission(...)`
Truthy(r) == r = "True"

(***************************************************************************)
(* utils/user_managemet.py: the second permission resolver                 *)
(***************************************************************************)
\* The members of the enumeration UserRole, by name.
UserRoleMembers == [ADMIN |-> ADMIN, TEACHER |-> TEACHER, STUDENT |-> STUDENT]

\* UserRole.<name>: the member, or AttributeError when there is none.
UserRoleMember(name) == Get(UserRoleMembers, name, "AttributeError")

\* UserRole(user.get("role", UserRole.REVIEWER)): the default is evaluated
\* before the lookup is made.
user_managemet_get_user_role(user) ==
    LET default == UserRoleMember("REVIEWER")
    IN  IF default = "AttributeError" THEN "AttributeError"
        ELSE UserRoleOf(Get(user, "role", default))

user_managemet_get_user_permissions(user) ==
    LET role == user_managemet_get_user_role(user)
        base == Get(ROLE_PERMISSIONS, role, EmptyDict)
        custom == Get(USER_CUSTOM_PERMISSIONS, user["_id"], EmptyDict)
    IN  IF role \in {"AttributeError", "ValueError"} THEN Raise(role)
        ELSE DictMerge(base, custom)

user_managemet_check_permission(current_user, target_role, action) ==
    LET perms == user_managemet_get_user_permissions(current_user)
    IN  IF Raised(perms) THEN perms.raised
        ELSE IF action \in Actions
        THEN PermExpr(perms, "can_" \o action, target_role)
        ELSE "False"

(***************************************************************************)
(* The resolver as a function of its inputs: one user of any role, with    *)
(* any override stored for it or none, on which the resolver is called.    *)
(***************************************************************************)
MaxSetFields == 2

UserDoc(id, role, active) == [_id |-> id, role |-> role, is_active |-> active]

Idle == [op |-> "init", caller |-> "-", target |-> "-", arg |-> "-", outcome |-> "-"]

\* An action string the resolver does not know, next to the four it does.
ActionStrings == Actions \cup {"purge"}

InitPerm ==
    /\ \E r \in UserRole : users = ("u1" :> UserDoc("u1", r, TRUE))
    /\ \/ USER_CUSTOM_PERMISSIONS = EmptyDict
       \/ \E d \in CustomPermissionModel(MaxSetFields) :
             USER_CUSTOM_PERMISSIONS = ("u1" :> d)
    /\ last = Idle
    /\ NoReviews /\ NoRaces

CallGetUserPermissions(u) ==
    /\ last' = [op |-> "get_user_permissions", caller |-> u, target |-> "-",
                arg |-> "-", outcome |-> get_user_permissions(users[u])]
    /\ UNCHANGED <<permVars, reviewVars, raceVars>>

CallCheckPermission(u, target_role, action) ==
    /\ last' = [op |-> "check_permission", caller |-> u, target |-> target_role,
                arg |-> action,
                outcome |-> check_permission(users[u], target_role, action)]
    /\ UNCHANGED <<permVars, reviewVars, raceVars>>

CallUserManagemetCheckPermission(u, target_role, action) ==
    /\ last' = [op |-> "user_managemet.check_permission", caller |-> u,
                target |-> target_role, arg |-> action,
                outcome |-> user_managemet_check_permission(users[u], target_role, action)]
    /\ UNCHANGED <<permVars, reviewVars, raceVars>>

NextPerm ==
    \/ \E u \in DOMAIN users : CallGetUserPermissions(u)
    \/ \E u \in DOMAIN users, t \in UserRole, a \in ActionStrings :
          CallCheckPermission(u, t, a)
    \/ \E u \in DOMAIN users, t \in UserRole, a \in ActionStrings :
          CallUserManagemetCheckPermission(u, t, a)

SpecPerm == InitPerm /\ [][NextPerm]_vars

(***************************************************************************)
(* SpecRole: the resolver on a user document as the users collection can   *)
(* hold it: with a role of the enumeration, with a role that is not one    *)
(* of its values, or without a role.                                       *)
(***************************************************************************)
StoredRoles == UserRole \cup {"reviewer"}

UserDocs(id) ==
    {UserDoc(id, r, TRUE) : r \in StoredRoles} \cup {[_id |-> id, is_active |-> TRUE]}

InitRole ==
    /\ \E doc \in UserDocs("u1") : users = ("u1" :> doc)
    /\ \/ USER_CUSTOM_PERMISSIONS = EmptyDict
       \/ \E d \in CustomPermissionModel(MaxSetFields) :
             USER_CUSTOM_PERMISSIONS = ("u1" :> d)
    /\ last = Idle
    /\ NoReviews /\ NoRaces

NextRole ==
    \/ \E u \in DOMAIN users : CallGetUserPermissions(u)
    \/ \E u \in DOMAIN users, t \in UserRole, a \in Actions :
          CallCheckPermission(u, t, a)

SpecRole == InitRole /\ [][NextRole]_vars

(***************************************************************************)
(* api/v1/user.py: the user-management handlers.  A user document keeps    *)
(* _id, role and is_active; a caller is any stored user, read afresh for   *)
(* the request.  Outcomes are "ok" or the HTTP status of the exception.    *)
(***************************************************************************)
UserIds == {"u1", "u2"}

\* The override documents the requests of this specification send.
RequestDocs ==
    {[can_update |-> Some({})],
     [can_update |-> None],
     [can_delete |-> Some({ADMIN, TEACHER, STUDENT}), can_manage_all |-> Some(TRUE)]}

\* UpdateUserModel: role and is_active, None when the request leaves them out.
UpdateUserModel ==
    [role : {None} \cup {Some(r) : r \in UserRole},
     is_active : {None, Some(TRUE), Some(FALSE)}]

\* How a handler ends once check_permission has run: an exception of the
\* check is a 500, a falsy result the 403 of the handler.
Guarded(r) ==
    IF r \in {"TypeError", "ValueError"} THEN "500" ELSE IF Truthy(r) THEN "ok" ELSE "403"

create_authorized(current_user, role) ==
    Guarded(check_permission(current_user, role, "create"))

update_authorized(current_user, user) ==
    IF current_user["_id"] = user["_id"]
    THEN "ok"
    ELSE Guarded(check_permission(current_user, get_user_role(user), "update"))

\* Variant: the identity match of update_user applied to delete_user.
delete_authorized_self_bypass(current_user, user) ==
    IF current_user["_id"] = user["_id"]
    THEN "ok"
    ELSE Guarded(check_permission(current_user, get_user_role(user), "delete"))

delete_authorized(current_user, user) ==
    Guarded(check_permission(current_user, get_user_role(user), "delete"))

require_permission(current_user, action, target_role) ==
    Guarded(check_permission(current_user, target_role, action))

Result(op, caller, target, arg, outcome) ==
    [op |-> op, caller |-> caller, target |-> target, arg |-> arg, outcome |-> outcome]

create_user(caller, role, is_active) ==
    LET auth == create_authorized(users[caller], role)
        new == CHOOSE id \in UserIds \ DOMAIN users : TRUE
    IN  /\ UserIds \ DOMAIN users # {}
        /\ users' = IF auth = "ok"
                     THEN users @@ (new :> UserDoc(new, role, is_active))
                     ELSE users
        /\ last' = Result("create_user", caller, IF auth = "ok" THEN new ELSE "-",
                          role, auth)
        /\ UNCHANGED <<USER_CUSTOM_PERMISSIONS, reviewVars, raceVars>>

\* update_dict = {k: v for k, v in update_data.dict().items() if v is not None}
ApplyUpdate(user, update_data) ==
    [user EXCEPT !.role = IF update_data.role = None THEN @ ELSE Val(update_data.role),
                 !.is_active = IF update_data.is_active = None THEN @
                               ELSE Val(update_data.is_active)]

update_user(caller, user_id, update_data) ==
    LET outcome == IF user_id \notin DOMAIN users THEN "404"
                   ELSE update_authorized(users[caller], users[user_id])
    IN  /\ users' = IF outcome = "ok"
                     THEN [users EXCEPT ![user_id] = ApplyUpdate(@, update_data)]
                     ELSE users
        /\ last' = Result("update_user", caller, user_id, update_data, outcome)
        /\ UNCHANGED <<USER_CUSTOM_PERMISSIONS, reviewVars, raceVars>>

delete_user(caller, user_id) ==
    LET outcome == IF user_id \notin DOMAIN users THEN "404"
                   ELSE delete_authorized(users[caller], users[user_id])
    IN  /\ users' = IF outcome = "ok"
                     THEN [users EXCEPT ![user_id].is_active = FALSE]
                     ELSE users
        /\ last' = Result("delete_user", caller, user_id, "-", outcome)
        /\ UNCHANGED <<USER_CUSTOM_PERMISSIONS, reviewVars, raceVars>>

\* Variant: the stored dict is updated in place, field by field.
StoreOverrideMerged(store, user_id, new_perms) ==
    (user_id :> DictMerge(Get(store, user_id, EmptyDict), new_perms)) @@ store

\* USER_CUSTOM_PERMISSIONS[user_id] = new_perms
StoreOverride(store, user_id, new_perms) ==
    (user_id :> new_perms) @@ store

assign_custom_permissions(caller, user_id, permissions_data) ==
    LET dep == require_permission(users[caller], "update", TEACHER)
        outcome == IF dep # "ok" THEN dep
                   ELSE IF user_id \notin DOMAIN users
                           \/ get_user_role(users[user_id]) # TEACHER
                   THEN "400"
                   ELSE "ok"
    IN  /\ USER_CUSTOM_PERMISSIONS' =
              IF outcome = "ok"
              THEN StoreOverride(USER_CUSTOM_PERMISSIONS, user_id, permissions_data)
              ELSE USER_CUSTOM_PERMISSIONS
        /\ last' = Result("assign_custom_permissions", caller, user_id,
                          permissions_data, outcome)
        /\ UNCHANGED <<users, reviewVars, raceVars>>

\* The users collection holds u1, and u2 or not, each with any role.
\* raise HTTPException(status_code=403, detail=...); the detail is kept as
\* the words of its text.
Forbidden(detail) == [status |-> 403, detail |-> detail, users |-> {}]

\* Variant: an admin is shown admins and teachers only.
allowed_roles_without_students(current_user) ==
    CASE get_user_role(current_user) = ADMIN -> Some({ADMIN, TEACHER})
      [] get_user_role(current_user) = TEACHER -> Some({STUDENT})
      [] OTHER -> None

\* The roles the caller may list, None for a caller who may not list.
allowed_roles(current_user) ==
    CASE get_user_role(current_user) = ADMIN -> Some({ADMIN, TEACHER, STUDENT})
      [] get_user_role(current_user) = TEACHER -> Some({STUDENT})
      [] OTHER -> None

\* Variant: a role outside the allowed set is not told apart from the other
\* denial.
role_filter_silent(allowed, role) == Some({role} \cap allowed)

\* if role not in allowed_roles: raise ...; allowed_roles = [role]
role_filter(allowed, role) == IF role \notin allowed THEN None ELSE Some({role})

\* auth_service.database.list_users_by_roles(roles), as the ids of the users
list_users_by_roles(roles) == {id \in DOMAIN users : users[id].role \in roles}

list_users(caller, role) ==
    LET allowed == allowed_roles(users[caller])
        narrowed == IF allowed = None \/ role = None THEN allowed
                    ELSE role_filter(Val(allowed), Val(role))
        outcome ==
            IF allowed = None
            THEN Forbidden(<<"Insufficient permissions to list users">>)
            ELSE IF narrowed = None
            THEN Forbidden(<<"You cannot view", Val(role), "users">>)
            ELSE [status |-> 200, detail |-> <<>>,
                  users |-> list_users_by_roles(Val(narrowed))]
    IN  /\ last' = Result("list_users", caller, "-", role, outcome)
        /\ UNCHANGED <<users, USER_CUSTOM_PERMISSIONS, reviewVars, raceVars>>

Init ==
    /\ \E S \in {{"u1"}, UserIds} :
         \E roles \in [S -> UserRole] :
            users = [id \in S |-> UserDoc(id, roles[id], TRUE)]
    /\ USER_CUSTOM_PERMISSIONS = EmptyDict
    /\ last = Idle
    /\ NoReviews /\ NoRaces

Next ==
    \/ \E c \in DOMAIN users, r \in UserRole, a \in BOOLEAN : create_user(c, r, a)
    \/ \E c \in DOMAIN users, t \in UserIds, d \in UpdateUserModel : update_user(c, t, d)
    \/ \E c \in DOMAIN users, t \in UserIds : delete_user(c, t)
    \/ \E c \in DOMAIN users, t \in UserIds, d \in RequestDocs :
          assign_custom_permissions(c, t, d)
    \/ \E c \in DOMAIN users, r \in {None} \cup {Some(x) : x \in UserRole} :
          list_users(c, r)

Spec == Init /\ [][Next]_vars

(***************************************************************************)
(* SpecList: one list_users request by the user u1, of any role, with any  *)
(* override stored for u1 when it is a teacher; u2 is a user of any role.  *)
(***************************************************************************)
InitList ==
    /\ \E roles \in [UserIds -> UserRole] :
          users = [id \in UserIds |-> UserDoc(id, roles[id], TRUE)]
    /\ \/ USER_CUSTOM_PERMISSIONS = EmptyDict
       \/ /\ get_user_role(users["u1"]) = TEACHER
          /\ \E d \in CustomPermissionModel(MaxSetFields) :
                USER_CUSTOM_PERMISSIONS = ("u1" :> d)
    /\ last = Idle
    /\ NoReviews /\ NoRaces

NextList ==
    \E r \in {None} \cup {Some(x) : x \in UserRole} :
        last = Idle /\ list_users("u1", r)

SpecList == InitList /\ [][NextList]_vars

(***************************************************************************)
(* services/review_service.py over the reviews table.  A row keeps id,     *)
(* platform_review_id, entity_identifier, platform, rating and is_active.  *)
(* A rating is a whole number of stars; an average is the exact fraction   *)
(* num/den.                                                                *)
(***************************************************************************)
MaxIds == 2
MaxBatch == 2
MaxRating == 5

ReviewIds == 1..MaxIds
PlatformReviewIds == {"p1", "p2"}
Entities == {"e1", "e2"}
Platform == {"google", "yelp"}
Ratings == {0, MaxRating}
EntityType == {"restaurant", "hotel"}

\* Points in time (review_date, updated_at, the readings of datetime.now).
MaxTime == 2
Times == 1..MaxTime

\* A clock that stands still: every reading of datetime.now is the same.
FrozenClock == {1}
FrozenNow == CHOOSE t \in FrozenClock : TRUE

\* ReviewCreate, after validation (rating within 0..5 or None).  The
\* entity_identifier is a string without a minimum length.
ReviewCreate ==
    [platform_review_id : PlatformReviewIds,
     entity_type : EntityType,
     entity_identifier : Entities \cup {""},
     platform : Platform,
     rating : {None} \cup {Some(x) : x \in Ratings},
     review_date : Times,
     verified : BOOLEAN]

\* The create requests of the store's life cycle: one kind of entity, one
\* review date, not verified; the second entity is reviewed on one platform.
CreateItems ==
    {d \in ReviewCreate : /\ d.entity_type = "restaurant"
                          /\ d.entity_identifier \in Entities
                          /\ d.entity_identifier = "e2" => d.platform = "google"
                          /\ d.review_date = 1
                          /\ ~d.verified}

\* The items a bulk request carries.
BatchItems ==
    {d \in CreateItems : /\ d.entity_identifier = "e1" /\ d.platform = "google"
                         /\ d.rating = Some(MaxRating)}

\* The data of the concurrent create requests.
RaceItems ==
    {d \in CreateItems : /\ d.entity_identifier = "e1" /\ d.platform = "google"
                         /\ d.rating \in {None, Some(MaxRating)}}

Batches == UNION {[1..n -> BatchItems] : n \in 0..MaxBatch}

\* Review(**review_data.model_dump()), with the column defaults; now is the
\* reading of datetime.now that the default of updated_at takes.
Review(id, review_data, now) ==
    [id |-> id,
     platform_review_id |-> review_data.platform_review_id,
     entity_type |-> review_data.entity_type,
     entity_identifier |-> review_data.entity_identifier,
     platform |-> review_data.platform,
     rating |-> review_data.rating,
     review_date |-> review_data.review_date,
     verified |-> review_data.verified,
     is_active |-> TRUE,
     updated_at |-> now]

\* The columns an update can set, and the values it can give them.
ColumnValues(c) ==
    CASE c = "platform_review_id" -> PlatformReviewIds
      [] c = "entity_identifier" -> Entities
      [] c = "platform" -> Platform
      [] c = "rating" -> {None} \cup {Some(x) : x \in Ratings}
      [] c = "is_active" -> BOOLEAN
      [] c = "entity_type" -> EntityType
      [] c = "review_date" -> Times
      [] c = "verified" -> BOOLEAN

Columns == {"platform_review_id", "entity_identifier", "platform", "rating", "is_active"}

\* A dict setting exactly the column c.
OneColumn(c) == {[k \in {c} |-> v] : v \in ColumnValues(c)}

\* ReviewUpdate.model_dump(exclude_unset=True): no column or one column set.
ReviewUpdate == {EmptyDict} \cup UNION {OneColumn(c) : c \in Columns}

\* The update requests of the store's life cycle: the key, the rating or
\* is_active.
LifeCycleUpdates ==
    {d \in ReviewUpdate : DOMAIN d \subseteq {"platform_review_id", "rating", "is_active"}}

\* The columns of the model that ReviewUpdate can set.
WideColumns == Columns \cup {"entity_type", "review_date", "verified"}

\* ReviewUpdate.model_dump(exclude_unset=True): up to two columns set.
UpdateDocs ==
    {EmptyDict}
    \cup {d1 @@ d2 : d1 \in UNION {OneColumn(c) : c \in WideColumns},
                     d2 \in UNION {OneColumn(c) : c \in WideColumns}}

\* The filters and the update_data of bulk_update_reviews.
BulkFilters == {EmptyDict} \cup OneColumn("entity_identifier")
BulkUpdateData == OneColumn("platform_review_id") \cup OneColumn("is_active")

\* Variant: an update resets the rating it was not given.
SetColumnsReset(row, d) ==
    [c \in DOMAIN row |-> IF c \in DOMAIN d THEN d[c]
                          ELSE IF c = "rating" THEN None ELSE row[c]]

\* Variant: the table has no unique constraint.
UniqueOff(rows) == TRUE

\* UniqueConstraint("platform_review_id")
UniqueOK(rows) ==
    \A r1, r2 \in rows :
        r1.platform_review_id = r2.platform_review_id => r1.id = r2.id

\* setattr(review, field, value) for every item of the dict
SetColumns(row, d) == [c \in DOMAIN row |-> IF c \in DOMAIN d THEN d[c] ELSE row[c]]

\* Variant: a row matches when one of the filters does.
MatchesAny(row, filters) == \E k \in DOMAIN filters : row[k] = filters[k]

\* stmt.where(getattr(Review, key) == value) for every item of filters
Matches(row, filters) == \A k \in DOMAIN filters : row[k] = filters[k]

\* Variant: an id that no row has selects a row all the same.
RowsByIdOrAny(review_id) ==
    IF \E r \in reviews : r.id = review_id
    THEN {r \in reviews : r.id = review_id}
    ELSE IF reviews = {} THEN {} ELSE {CHOOSE r \in reviews : TRUE}

\* select(Review).where(Review.id == review_id)
RowsById(review_id) == {r \in reviews : r.id = review_id}

\* review.updated_at = datetime.now(UTC)
Touch(row, now) == [row EXCEPT !.updated_at = now]

\* review.is_active = False; review.updated_at = datetime.now(UTC)
SoftDelete(rows, found, now) ==
    (rows \ found) \cup {Touch([r EXCEPT !.is_active = FALSE], now) : r \in found}

\* Variant: the hard delete only flags the rows.
HardDeleteFlags(rows, found) ==
    (rows \ found) \cup {[r EXCEPT !.is_active = FALSE] : r \in found}

\* await self.db.delete(review)
HardDelete(rows, found) == rows \ found

create_review(review_data, now) ==
    LET review == Review(next_id, review_data, now)
        ok == UniqueOK(reviews \cup {review})
    IN  /\ ok => next_id <= MaxIds
        /\ reviews' = IF ok THEN reviews \cup {review} ELSE reviews
        /\ next_id' = IF ok THEN next_id + 1 ELSE next_id
        /\ last' = Result("create_review", "-", "-", review_data.platform_review_id,
                          IF ok THEN "ok" ELSE "IntegrityError")
        /\ UNCHANGED <<permVars, raceVars>>

\* Variant: every item is inserted on its own, the items whose key is taken
\* being left out.
bulk_create_reviews_item_by_item(reviews_data, now) ==
    LET n == Len(reviews_data)
        taken(i) == \/ \E r \in reviews :
                           r.platform_review_id = reviews_data[i].platform_review_id
                    \/ \E j \in 1..(i - 1) :
                           reviews_data[j].platform_review_id
                             = reviews_data[i].platform_review_id
        new == {Review(next_id + i - 1, reviews_data[i], now) :
                    i \in {k \in 1..n : ~taken(k)}}
    IN  /\ next_id + n - 1 <= MaxIds
        /\ reviews' = reviews \cup new
        /\ next_id' = next_id + n
        /\ last' = Result("bulk_create_reviews", "-", "-", "-",
                          IF \A i \in 1..n : ~taken(i) THEN "ok" ELSE "IntegrityError")
        /\ UNCHANGED <<permVars, raceVars>>

bulk_create_reviews(reviews_data, now) ==
    LET n == Len(reviews_data)
        new == {Review(next_id + i - 1, reviews_data[i], now) : i \in 1..n}
        ok == UniqueOK(reviews \cup new)
    IN  /\ ok => next_id + n - 1 <= MaxIds
        /\ reviews' = IF ok THEN reviews \cup new ELSE reviews
        /\ next_id' = IF ok THEN next_id + n ELSE next_id
        /\ last' = Result("bulk_create_reviews", "-", "-", "-",
                          IF ok THEN "ok" ELSE "IntegrityError")
        /\ UNCHANGED <<permVars, raceVars>>

update_review(review_id, review_data, now) ==
    LET found == RowsById(review_id)
        review == CHOOSE r \in found : TRUE
        after == (reviews \ found)
                 \cup {Touch(SetColumns(review, review_data), now)}
        outcome == IF found = {} THEN "None"
                   ELSE IF UniqueOK(after) THEN "ok" ELSE "IntegrityError"
    IN  /\ reviews' = IF outcome = "ok" THEN after ELSE reviews
        /\ last' = Result("update_review", "-", "-", "-", outcome)
        /\ UNCHANGED <<next_id, permVars, raceVars>>

bulk_update_reviews(filters, update_data, now) ==
    LET matched == {r \in reviews : Matches(r, filters)}
        after == (reviews \ matched)
                 \cup {Touch(SetColumns(r, update_data), now) : r \in matched}
        ok == UniqueOK(after)
    IN  /\ reviews' = IF ok THEN after ELSE reviews
        /\ last' = Result("bulk_update_reviews", "-", "-", "-",
                          IF ok THEN Some(Cardinality(matched)) ELSE None)
        /\ UNCHANGED <<next_id, permVars, raceVars>>

delete_review(review_id, soft, now) ==
    LET found == RowsById(review_id)
        review == CHOOSE r \in found : TRUE
    IN  /\ reviews' = IF found = {} THEN reviews
                      ELSE IF soft
                      THEN SoftDelete(reviews, found, now)
                      ELSE HardDelete(reviews, found)
        /\ last' = Result("delete_review", "-", "-", IF soft THEN "soft" ELSE "hard",
                          IF found = {} THEN "False" ELSE "True")
        /\ UNCHANGED <<next_id, permVars, raceVars>>

\* Variant: the platform of the request is not applied.
bulk_delete_reviews_any_platform(entity_identifier, platform, soft, now) ==
    LET matched == {r \in reviews : r.entity_identifier = entity_identifier}
    IN  /\ reviews' = IF soft
                      THEN SoftDelete(reviews, matched, now)
                      ELSE HardDelete(reviews, matched)
        /\ last' = Result("bulk_delete_reviews", "-", "-", "-", Cardinality(matched))
        /\ UNCHANGED <<next_id, permVars, raceVars>>

bulk_delete_reviews(entity_identifier, platform, soft, now) ==
    LET matched == {r \in reviews :
                        /\ r.entity_identifier = entity_identifier
                        /\ platform # None => r.platform = Val(platform)}
    IN  /\ reviews' = IF soft
                      THEN SoftDelete(reviews, matched, now)
                      ELSE HardDelete(reviews, matched)
        /\ last' = Result("bulk_delete_reviews", "-", "-", "-", Cardinality(matched))
        /\ UNCHANGED <<next_id, permVars, raceVars>>

RECURSIVE SumRating(_)
SumRating(rows) ==
    IF rows = {} THEN 0
    ELSE LET r == CHOOSE x \in rows : TRUE
         IN  Val(r.rating) + SumRating(rows \ {r})

\* select(func.avg(Review.rating)) over the rows the where clauses keep
Avg(rows) ==
    IF rows = {} THEN None
    ELSE Some([num |-> SumRating(rows), den |-> Cardinality(rows)])

\* return float(avg_rating) if avg_rating else None
FloatOrNone(avg_rating) ==
    IF avg_rating # None /\ Val(avg_rating).num # 0 THEN avg_rating ELSE None

get_average_rating(entity_identifier) ==
    FloatOrNone(Avg({r \in reviews :
                        /\ r.entity_identifier = entity_identifier
                        /\ r.is_active
                        /\ r.rating # None}))

CallGetAverageRating(entity_identifier) ==
    /\ last' = Result("get_average_rating", "-", "-", entity_identifier,
                      get_average_rating(entity_identifier))
    /\ UNCHANGED <<reviewVars, permVars, raceVars>>

(***************************************************************************)
(* Tables the store can hold, for the specifications that start from a     *)
(* stored table: row i was created with the key StoredKeys[i] at time 1,    *)
(* and may have been soft-deleted at that time.                            *)
(***************************************************************************)
StoredKeys == <<"p1", "p2", "p3", "p4", "p5">>

StoredRow(i, d, active) ==
    [Review(i, [d EXCEPT !.platform_review_id = StoredKeys[i]], 1)
        EXCEPT !.is_active = active]

\* The tables of n rows made from the create requests in items.
TablesOf(n, items) ==
    {{StoredRow(i, f[i][1], f[i][2]) : i \in 1..n} : f \in [1..n -> items \X BOOLEAN]}

Tables(max, items) == UNION {TablesOf(n, items) : n \in 0..max}

(***************************************************************************)
(* SpecUpdate: one update_review request, drawn with the table it meets.   *)
(* tasks holds the request.                                                *)
(***************************************************************************)
UpdateItems ==
    {d \in ReviewCreate :
        /\ d.platform_review_id = "p1"
        /\ \/ /\ d.entity_type = "restaurant" /\ d.entity_identifier = "e1"
              /\ d.platform = "google" /\ d.rating = Some(MaxRating)
              /\ d.review_date = 1 /\ d.verified
           \/ /\ d.entity_type = "hotel" /\ d.entity_identifier = "e2"
              /\ d.platform = "yelp" /\ d.rating = None
              /\ d.review_date = MaxTime /\ ~d.verified}

InitUpdate ==
    /\ reviews \in Tables(MaxIds, UpdateItems)
    /\ next_id = Cardinality(reviews) + 1
    /\ tasks \in [review_id : ReviewIds, review_data : UpdateDocs, now : Times]
    /\ sessions = <<>>
    /\ users = EmptyDict /\ USER_CUSTOM_PERMISSIONS = EmptyDict
    /\ last = Idle

ServeUpdateReview ==
    /\ last = Idle
    /\ update_review(tasks.review_id, tasks.review_data, tasks.now)

NextUpdate == ServeUpdateReview

SpecUpdate == InitUpdate /\ [][NextUpdate]_vars

(***************************************************************************)
(* Read operations of the review store.  A query with an ORDER BY          *)
(* review_date DESC leaves the order of rows with equal review_date to the *)
(* database, which may produce them in any order, and in a different order *)
(* on every execution: a read is the set of the results it can return.     *)
(***************************************************************************)
DefaultLimit == 100
DefaultPageSize == 20

Min(a, b) == IF a <= b THEN a ELSE b

\* The rows of a set in every order, each row once.
Orderings(rows) ==
    {s \in [1..Cardinality(rows) -> rows] :
        \A i, j \in 1..Cardinality(rows) : i # j => s[i] # s[j]}

\* Variant: the rows come in the order of their ids.
order_by_id(rows) ==
    {s \in Orderings(rows) : \A i \in 1..(Len(s) - 1) : s[i].id < s[i + 1].id}

\* query.order_by(Review.review_date.desc())
order_by_review_date_desc(rows) ==
    {s \in Orderings(rows) :
        \A i \in 1..(Len(s) - 1) : s[i].review_date >= s[i + 1].review_date}

\* query.limit(limit).offset(offset)
limit_offset(s, limit, offset) == SubSeq(s, offset + 1, Min(Len(s), offset + limit))

\* `if entity_identifier:` is true of a string that is not empty.
TruthyStr(x) == x # None /\ Val(x) # ""

\* select(Review.id == review_id).scalar_one_or_none(): no row or one row
get_review_by_id(review_id) == RowsById(review_id)

\* The arguments of get_reviews and their defaults (entity_name is left at
\* its default throughout).
GetReviewsDefaults ==
    [entity_type |-> None, entity_identifier |-> None, platform |-> None,
     min_rating |-> None, max_rating |-> None, verified_only |-> FALSE,
     is_active |-> TRUE, limit |-> DefaultLimit, offset |-> 0]

\* The where clauses of get_reviews, in the order the code adds them.
get_reviews_where(f) ==
    LET q0 == {r \in reviews : r.is_active = f.is_active}
        q1 == IF f.entity_type # None
              THEN {r \in q0 : r.entity_type = Val(f.entity_type)} ELSE q0
        q2 == IF TruthyStr(f.entity_identifier)
              THEN {r \in q1 : r.entity_identifier = Val(f.entity_identifier)} ELSE q1
        q3 == IF f.platform # None
              THEN {r \in q2 : r.platform = Val(f.platform)} ELSE q2
        q4 == IF f.min_rating # None
              THEN {r \in q3 : r.rating # None /\ Val(r.rating) >= Val(f.min_rating)}
              ELSE q3
        q5 == IF f.max_rating # None
              THEN {r \in q4 : r.rating # None /\ Val(r.rating) <= Val(f.max_rating)}
              ELSE q4
    IN  IF f.verified_only THEN {r \in q5 : r.verified} ELSE q5

get_reviews(f) ==
    {limit_offset(o, f.limit, f.offset) :
        o \in order_by_review_date_desc(get_reviews_where(f))}

get_reviews_by_entity(entity_identifier, platform, limit) ==
    LET q0 == {r \in reviews : r.entity_identifier = entity_identifier /\ r.is_active}
        q1 == IF platform # None THEN {r \in q0 : r.platform = Val(platform)} ELSE q0
    IN  {limit_offset(o, limit, 0) : o \in order_by_review_date_desc(q1)}

\* The base query of get_reviews_paginated.
paginated_where(entity_type, platform, min_rating) ==
    LET q0 == {r \in reviews : r.is_active}
        q1 == IF entity_type # None
              THEN {r \in q0 : r.entity_type = Val(entity_type)} ELSE q0
        q2 == IF platform # None THEN {r \in q1 : r.platform = Val(platform)} ELSE q1
    IN  IF min_rating # None
        THEN {r \in q2 : r.rating # None /\ Val(r.rating) >= Val(min_rating)}
        ELSE q2

\* Variant: page is taken as 0-indexed.
page_offset_from_zero(page, page_size) == page * page_size

\* offset = (page - 1) * page_size
page_offset(page, page_size) == (page - 1) * page_size

get_reviews_paginated(page, page_size, entity_type, platform, min_rating) ==
    LET query == paginated_where(entity_type, platform, min_rating)
        total == Cardinality(query)
        offset == page_offset(page, page_size)
    IN  {[reviews |-> limit_offset(o, page_size, offset), total |-> total] :
            o \in order_by_review_date_desc(query)}

\* Variant: count_reviews counts the rows whatever their is_active.
count_where_all(entity_identifier, platform, is_active) ==
    LET q1 == IF TruthyStr(entity_identifier)
              THEN {r \in reviews : r.entity_identifier = Val(entity_identifier)}
              ELSE reviews
    IN  IF platform # None THEN {r \in q1 : r.platform = Val(platform)} ELSE q1

\* The rows count_reviews counts.
count_where(entity_identifier, platform, is_active) ==
    LET q0 == {r \in reviews : r.is_active = is_active}
        q1 == IF TruthyStr(entity_identifier)
              THEN {r \in q0 : r.entity_identifier = Val(entity_identifier)} ELSE q0
    IN  IF platform # None THEN {r \in q1 : r.platform = Val(platform)} ELSE q1

count_reviews(entity_identifier, platform, is_active) ==
    Cardinality(count_where(entity_identifier, platform, is_active))

\* Variant: the distribution has a key for every platform.
group_by_platform_dense(rows) ==
    [p \in Platform |-> Cardinality({r \in rows : r.platform = p})]

\* select(Review.platform, func.count(Review.id)).group_by(Review.platform):
\* one group for every platform that occurs in the rows
group_by_platform(rows) ==
    [p \in {r.platform : r \in rows} |-> Cardinality({r \in rows : r.platform = p})]

get_platform_distribution(entity_identifier) ==
    group_by_platform({r \in reviews :
                          r.entity_identifier = entity_identifier /\ r.is_active})

\* The table starts empty; the user side plays no part.
InitReviews ==
    /\ reviews = {} /\ next_id = 1
    /\ users = EmptyDict /\ USER_CUSTOM_PERMISSIONS = EmptyDict
    /\ NoRaces
    /\ last = Idle

NextReviews ==
    \/ \E d \in CreateItems, now \in FrozenClock : create_review(d, now)
    \/ \E b \in Batches, now \in FrozenClock : bulk_create_reviews(b, now)
    \/ \E id \in ReviewIds, d \in LifeCycleUpdates, now \in FrozenClock :
          update_review(id, d, now)
    \/ \E f \in BulkFilters, d \in BulkUpdateData, now \in FrozenClock :
          bulk_update_reviews(f, d, now)
    \/ \E id \in ReviewIds, soft \in BOOLEAN, now \in FrozenClock :
          delete_review(id, soft, now)
    \/ \E e \in Entities, p \in {None} \cup {Some(x) : x \in Platform}, soft \in BOOLEAN,
          now \in FrozenClock :
          bulk_delete_reviews(e, p, soft, now)
    \/ \E e \in Entities : CallGetAverageRating(e)

SpecReviews == InitReviews /\ [][NextReviews]_vars

(***************************************************************************)
(* SpecDelete: the life cycle of the store with every write operation, on  *)
(* reviews of one entity, one platform and one rating, so that rows differ *)
(* in their id, their key and their is_active only.                        *)
(***************************************************************************)
NextDelete ==
    \/ \E d \in BatchItems, now \in FrozenClock : create_review(d, now)
    \/ \E b \in Batches, now \in FrozenClock : bulk_create_reviews(b, now)
    \/ \E id \in ReviewIds, now \in FrozenClock,
          d \in OneColumn("is_active") \cup OneColumn("platform_review_id") :
          update_review(id, d, now)
    \/ \E d \in OneColumn("is_active"), now \in FrozenClock :
          bulk_update_reviews(EmptyDict, d, now)
    \/ \E id \in ReviewIds, soft \in BOOLEAN, now \in FrozenClock :
          delete_review(id, soft, now)
    \/ \E p \in {None} \cup {Some(x) : x \in Platform}, soft \in BOOLEAN,
          now \in FrozenClock :
          bulk_delete_reviews("e1", p, soft, now)

SpecDelete == InitReviews /\ [][NextDelete]_vars

(***************************************************************************)
(* SpecQuery: one read request, drawn with the table it meets.  tasks      *)
(* holds the request, last the result.  The rows of a table differ from    *)
(* QueryBase in at most one column besides is_active.                      *)
(***************************************************************************)
MaxPage == 2
MaxPageSize == 2

QueryBase ==
    [platform_review_id |-> "p1", entity_type |-> "restaurant",
     entity_identifier |-> "e1", platform |-> "google",
     rating |-> Some(MaxRating), review_date |-> MaxTime, verified |-> TRUE]

QueryItems ==
    {d \in ReviewCreate :
        /\ d.platform_review_id = "p1"
        /\ Cardinality({c \in DOMAIN d : d[c] # QueryBase[c]}) <= 1}

\* The rows get_reviews_paginated tells apart, and those
\* get_platform_distribution tells apart.
PageItems == {d \in QueryItems : d.entity_identifier = "e1" /\ d.verified}
DistItems == {d \in QueryItems : d.entity_identifier = "e2" \/ d.platform = "yelp"}
                \cup {QueryBase}

\* The values a request gives to an argument of get_reviews.
ArgValues(k) ==
    CASE k = "entity_type" -> {Some("hotel")}
      [] k = "entity_identifier" -> {Some(""), Some("e2")}
      [] k = "platform" -> {Some("yelp")}
      [] k = "min_rating" -> {Some(x) : x \in Ratings}
      [] k = "max_rating" -> {Some(x) : x \in Ratings}
      [] k = "verified_only" -> {TRUE}
      [] k = "is_active" -> {FALSE}

FilterArgs ==
    {"entity_type", "entity_identifier", "platform", "min_rating", "max_rating",
     "verified_only", "is_active"}

OneArg(k) == {[x \in {k} |-> v] : v \in ArgValues(k)}

\* The windows a request asks for.
Windows ==
    {[limit |-> DefaultLimit, offset |-> 0], [limit |-> 1, offset |-> 0],
     [limit |-> 1, offset |-> 1]}

\* Calls of get_reviews with up to two filters and a window given, the
\* other arguments at their defaults.
GetReviewsArgs ==
    {w @@ d1 @@ d2 @@ GetReviewsDefaults :
        w \in Windows,
        d1 \in {EmptyDict} \cup UNION {OneArg(k) : k \in FilterArgs},
        d2 \in {EmptyDict} \cup UNION {OneArg(k) : k \in FilterArgs}}

PaginatedArgs ==
    [page : 1..MaxPage, page_size : 1..MaxPageSize,
     entity_type : {None, Some("hotel")},
     platform : {None, Some("yelp")},
     min_rating : {None} \cup {Some(x) : x \in Ratings}]

\* The items of the batches of a bulk_create_reviews request.
QueryBatchItems ==
    {[d EXCEPT !.platform_review_id = k] :
        d \in {x \in QueryItems : /\ x.entity_type = "restaurant"
                                  /\ x.entity_identifier = "e1"
                                  /\ x.platform = "google" /\ x.verified},
        k \in PlatformReviewIds}

QueryBatches == UNION {[1..n -> QueryBatchItems] : n \in 0..MaxBatch}

InitQuery ==
    /\ \/ /\ reviews \in Tables(MaxIds, QueryItems)
          /\ tasks \in [op : {"get_reviews"}, args : GetReviewsArgs]
       \/ /\ reviews \in Tables(MaxIds, PageItems)
          /\ tasks \in [op : {"get_reviews_paginated"}, args : PaginatedArgs]
       \/ /\ reviews \in Tables(MaxIds, DistItems)
          /\ tasks \in [op : {"get_platform_distribution"},
                        args : [entity_identifier : Entities]]
       \/ /\ reviews = {}
          /\ tasks \in [op : {"bulk_create_reviews"},
                        args : [reviews_data : QueryBatches, now : Times]]
    /\ next_id = Cardinality(reviews) + 1
    /\ sessions = <<>>
    /\ users = EmptyDict /\ USER_CUSTOM_PERMISSIONS = EmptyDict
    /\ last = Idle

ServeGetReviews ==
    /\ last = Idle /\ tasks.op = "get_reviews"
    /\ \E result \in get_reviews(tasks.args) :
          last' = Result("get_reviews", "-", "-", "-", result)
    /\ UNCHANGED <<reviewVars, permVars, raceVars>>

ServeGetReviewsPaginated ==
    /\ last = Idle /\ tasks.op = "get_reviews_paginated"
    /\ \E result \in get_reviews_paginated(tasks.args.page, tasks.args.page_size,
                                           tasks.args.entity_type, tasks.args.platform,
                                           tasks.args.min_rating) :
          last' = Result("get_reviews_paginated", "-", "-", "-", result)
    /\ UNCHANGED <<reviewVars, permVars, raceVars>>

ServeGetPlatformDistribution ==
    /\ last = Idle /\ tasks.op = "get_platform_distribution"
    /\ last' = Result("get_platform_distribution", "-", "-", "-",
                      get_platform_distribution(tasks.args.entity_identifier))
    /\ UNCHANGED <<reviewVars, permVars, raceVars>>

ServeBulkCreateReviews ==
    /\ last = Idle /\ tasks.op = "bulk_create_reviews"
    /\ bulk_create_reviews(tasks.args.reviews_data, tasks.args.now)

\* get_reviews with default filters, after the bulk create of the request.
ServeGetReviewsAfterCreate ==
    /\ last.op = "bulk_create_reviews" /\ tasks.op = "bulk_create_reviews"
    /\ \E limit \in {Len(tasks.args.reviews_data), DefaultLimit} :
         \E result \in get_reviews([GetReviewsDefaults EXCEPT !.limit = limit]) :
            last' = Result("get_reviews", "-", "-", "-", result)
    /\ UNCHANGED <<reviewVars, permVars, raceVars>>

NextQuery ==
    \/ ServeGetReviews
    \/ ServeGetReviewsPaginated
    \/ ServeGetPlatformDistribution
    \/ ServeBulkCreateReviews
    \/ ServeGetReviewsAfterCreate

SpecQuery == InitQuery /\ [][NextQuery]_vars

(***************************************************************************)
(* SpecScan: a client reads the pages of get_reviews_paginated one after   *)
(* the other, with one page size and no filter, from a table that does not *)
(* change.  tasks holds the page size and the pages read so far.  The rows *)
(* of the table differ in their review_date and their is_active.           *)
(***************************************************************************)
MaxScanRows == 3

ScanItems == {d \in ReviewCreate : \E t \in Times : d = [QueryBase EXCEPT !.review_date = t]}

\* total_pages = ceil(total / page_size)
TotalPages(total, page_size) == (total + page_size - 1) \div page_size

InitScan ==
    /\ reviews \in Tables(MaxScanRows, ScanItems)
    /\ next_id = Cardinality(reviews) + 1
    /\ tasks \in [op : {"scan"}, page_size : 1..MaxPageSize, pages : {<<>>}]
    /\ sessions = <<>>
    /\ users = EmptyDict /\ USER_CUSTOM_PERMISSIONS = EmptyDict
    /\ last = Idle

\* The client reads page 1, and then the pages up to the last one that the
\* total of page 1 gives.
scan_page ==
    /\ tasks.op = "scan"
    /\ \/ tasks.pages = <<>>
       \/ /\ tasks.pages # <<>>
          /\ Len(tasks.pages) < TotalPages(tasks.pages[1].total, tasks.page_size)
    /\ \E result \in get_reviews_paginated(Len(tasks.pages) + 1, tasks.page_size,
                                           None, None, None) :
          tasks' = [tasks EXCEPT !.pages = Append(@, result)]
    /\ UNCHANGED <<reviewVars, permVars, sessions, last>>

NextScan == scan_page

SpecScan == InitScan /\ [][NextScan]_vars

(***************************************************************************)
(* SpecWrite: one write request, drawn with the table it meets.  tasks     *)
(* holds the request, last the result.  The rows of a table differ in      *)
(* their entity_identifier, their platform and their is_active.            *)
(***************************************************************************)
WriteItems ==
    {d \in ReviewCreate : /\ d.platform_review_id = "p1"
                          /\ d.entity_type = "restaurant"
                          /\ d.rating = Some(MaxRating)
                          /\ d.review_date = 1
                          /\ ~d.verified}

\* The filters of a bulk_update_reviews request: up to two keys.
WriteFilters ==
    LET one == {[k \in {"entity_identifier"} |-> v] : v \in {"e1", ""}}
               \cup {[k \in {"platform"} |-> "google"], [k \in {"is_active"} |-> TRUE]}
    IN  {EmptyDict} \cup {d1 @@ d2 : d1 \in one, d2 \in one}

\* The update_data of a bulk_update_reviews request.
WriteUpdateData ==
    {EmptyDict} \cup OneColumn("is_active") \cup OneColumn("platform_review_id")
    \cup {[k \in {"rating"} |-> None], [k \in {"entity_identifier"} |-> "e2"]}

\* The items of the batch of a bulk_create_reviews request.
WriteBatchItems ==
    {[d EXCEPT !.platform_review_id = k] :
        d \in {x \in WriteItems : x.entity_identifier = "e1" /\ x.platform = "google"},
        k \in PlatformReviewIds}

WriteBatches == UNION {[1..n -> WriteBatchItems] : n \in 0..MaxBatch}

InitWrite ==
    /\ reviews \in Tables(MaxIds, WriteItems)
    /\ next_id = Cardinality(reviews) + 1
    /\ \/ tasks \in [op : {"bulk_update_reviews"},
                     args : [filters : WriteFilters, update_data : WriteUpdateData,
                             now : Times]]
       \/ tasks \in [op : {"bulk_delete_reviews"},
                     args : [entity_identifier : Entities \cup {""},
                             platform : {None} \cup {Some(x) : x \in Platform},
                             soft : BOOLEAN, now : Times]]
       \/ tasks \in [op : {"update_review"},
                     args : [review_id : ReviewIds, review_data : LifeCycleUpdates,
                             now : Times]]
       \/ tasks \in [op : {"delete_review"},
                     args : [review_id : ReviewIds, soft : BOOLEAN, now : Times]]
       \/ tasks \in [op : {"bulk_create_reviews"},
                     args : [reviews_data : WriteBatches, now : Times]]
    /\ sessions = <<>>
    /\ users = EmptyDict /\ USER_CUSTOM_PERMISSIONS = EmptyDict
    /\ last = Idle

ServeBulkUpdateReviews ==
    /\ last = Idle /\ tasks.op = "bulk_update_reviews"
    /\ bulk_update_reviews(tasks.args.filters, tasks.args.update_data, tasks.args.now)

ServeBulkDeleteReviews ==
    /\ last = Idle /\ tasks.op = "bulk_delete_reviews"
    /\ bulk_delete_reviews(tasks.args.entity_identifier, tasks.args.platform,
                           tasks.args.soft, tasks.args.now)

ServeUpdateReviewById ==
    /\ last = Idle /\ tasks.op = "update_review"
    /\ update_review(tasks.args.review_id, tasks.args.review_data, tasks.args.now)

ServeDeleteReview ==
    /\ last = Idle /\ tasks.op = "delete_review"
    /\ delete_review(tasks.args.review_id, tasks.args.soft, tasks.args.now)

ServeBulkCreateOnTable ==
    /\ last = Idle /\ tasks.op = "bulk_create_reviews"
    /\ bulk_create_reviews(tasks.args.reviews_data, tasks.args.now)

NextWrite ==
    \/ ServeBulkUpdateReviews
    \/ ServeBulkDeleteReviews
    \/ ServeUpdateReviewById
    \/ ServeDeleteReview
    \/ ServeBulkCreateOnTable

SpecWrite == InitWrite /\ [][NextWrite]_vars

(***************************************************************************)
(* Concurrent create_review requests, each on its own database session.    *)
(* A request builds its row and adds it to the session, then commit()      *)
(* flushes the INSERT and commits, then refresh() reads the row back.  The *)
(* unique index on platform_review_id holds the committed rows and the     *)
(* rows inserted by transactions still open: an INSERT that meets a        *)
(* committed row with its key fails, one that meets an uncommitted row     *)
(* with its key waits for that transaction to end.                         *)
(***************************************************************************)
NumSessions == 2

\* Variant: the index does not see the rows of open transactions.
PendingRowsUnseen(among) == {}

\* The rows inserted by the open transactions of the sessions in `among`.
PendingRows(among) ==
    {Review(sessions[j].id, sessions[j].data, FrozenNow) :
        j \in {k \in among : sessions[k].pc = "inserted"}}

\* review = Review(**review_data.model_dump()); self.db.add(review)
session_add(i) ==
    /\ sessions[i].pc = "start"
    /\ sessions' = [sessions EXCEPT ![i].pc = "added"]
    /\ UNCHANGED <<reviewVars, permVars, tasks, last>>

\* await self.db.commit(): the INSERT
session_insert(i) ==
    LET row == Review(next_id, sessions[i].data, FrozenNow)
        others == DOMAIN sessions \ {i}
    IN  /\ sessions[i].pc = "added"
        /\ UniqueOK(PendingRows(others) \cup {row})
        /\ IF UniqueOK(reviews \cup {row})
           THEN /\ sessions' = [sessions EXCEPT ![i].pc = "inserted", ![i].id = next_id]
                /\ next_id' = next_id + 1
           ELSE /\ sessions' = [sessions EXCEPT ![i].pc = "failed",
                                                ![i].outcome = "IntegrityError"]
                /\ UNCHANGED next_id
        /\ UNCHANGED <<reviews, permVars, tasks, last>>

\* await self.db.commit(): the COMMIT
session_commit(i) ==
    /\ sessions[i].pc = "inserted"
    /\ reviews' = reviews \cup {Review(sessions[i].id, sessions[i].data, FrozenNow)}
    /\ sessions' = [sessions EXCEPT ![i].pc = "committed"]
    /\ UNCHANGED <<next_id, permVars, tasks, last>>

\* await self.db.refresh(review); return review
session_refresh(i) ==
    /\ sessions[i].pc = "committed"
    /\ sessions' = [sessions EXCEPT ![i].pc = "returned", ![i].outcome = "ok"]
    /\ UNCHANGED <<reviewVars, permVars, tasks, last>>

InitCreateRace ==
    /\ sessions \in [1..NumSessions ->
                        {[pc |-> "start", data |-> d, id |-> 0, outcome |-> "-"] :
                            d \in RaceItems}]
    /\ reviews = {} /\ next_id = 1
    /\ users = EmptyDict /\ USER_CUSTOM_PERMISSIONS = EmptyDict
    /\ tasks = <<>>
    /\ last = Idle

NextCreateRace ==
    \E i \in DOMAIN sessions :
        \/ session_add(i)
        \/ session_insert(i)
        \/ session_commit(i)
        \/ session_refresh(i)

SpecCreateRace == InitCreateRace /\ [][NextCreateRace]_vars

(***************************************************************************)
(* A permission check for the teacher u2 running while the admin u1        *)
(* assigns overrides to u2.  The reader takes the stored override with one *)
(* dict lookup and merges it afterwards; the writer awaits the user        *)
(* document and then builds and stores new_perms without yielding.         *)
(* tasks.written collects every override that was stored whole: the one    *)
(* present at the start and each request's document.                       *)
(***************************************************************************)
MaxWrites == 2

\* custom = USER_CUSTOM_PERMISSIONS.get(user["_id"], {})
reader_get ==
    /\ tasks.reader.pc = "start"
    /\ tasks' = [tasks EXCEPT !.reader.pc = "got",
                              !.reader.custom = Get(USER_CUSTOM_PERMISSIONS, "u2", EmptyDict)]
    /\ UNCHANGED <<permVars, reviewVars, sessions, last>>

\* return {**base, **custom}
reader_merge ==
    /\ tasks.reader.pc = "got"
    /\ tasks' = [tasks EXCEPT
                    !.reader.pc = "merged",
                    !.reader.perms =
                        DictMerge(Get(ROLE_PERMISSIONS, get_user_role(users["u2"]), EmptyDict),
                                  tasks.reader.custom)]
    /\ UNCHANGED <<permVars, reviewVars, sessions, last>>

\* check_permission returns; the next check starts.
reader_return ==
    /\ tasks.reader.pc = "merged"
    /\ tasks' = [tasks EXCEPT !.reader.pc = "start"]
    /\ UNCHANGED <<permVars, reviewVars, sessions, last>>

\* The request passes require_permission and awaits get_user_by_id.
writer_request(permissions_data) ==
    /\ tasks.writer.pc = "idle"
    /\ tasks.writer.left > 0
    /\ require_permission(users["u1"], "update", TEACHER) = "ok"
    /\ tasks' = [tasks EXCEPT !.writer.pc = "awaiting_user",
                              !.writer.data = permissions_data]
    /\ UNCHANGED <<permVars, reviewVars, sessions, last>>

\* new_perms = {...}; USER_CUSTOM_PERMISSIONS[user_id] = new_perms
writer_store ==
    /\ tasks.writer.pc = "awaiting_user"
    /\ get_user_role(users["u2"]) = TEACHER
    /\ USER_CUSTOM_PERMISSIONS' =
          StoreOverride(USER_CUSTOM_PERMISSIONS, "u2", tasks.writer.data)
    /\ tasks' = [tasks EXCEPT !.writer.pc = "idle",
                              !.writer.left = @ - 1,
                              !.written = @ \cup {tasks.writer.data}]
    /\ UNCHANGED <<users, reviewVars, sessions, last>>

InitPermRace ==
    /\ users = ("u1" :> UserDoc("u1", ADMIN, TRUE)) @@ ("u2" :> UserDoc("u2", TEACHER, TRUE))
    /\ \/ USER_CUSTOM_PERMISSIONS = EmptyDict
       \/ \E d \in RequestDocs : USER_CUSTOM_PERMISSIONS = ("u2" :> d)
    /\ tasks = [reader |-> [pc |-> "start", custom |-> EmptyDict, perms |-> EmptyDict],
                writer |-> [pc |-> "idle", data |-> EmptyDict, left |-> MaxWrites],
                written |-> {Get(USER_CUSTOM_PERMISSIONS, "u2", EmptyDict)}]
    /\ NoReviews /\ sessions = <<>>
    /\ last = Idle

NextPermRace ==
    \/ reader_get
    \/ reader_merge
    \/ reader_return
    \/ \E d \in RequestDocs : writer_request(d)
    \/ writer_store

SpecPermRace == InitPermRace /\ [][NextPermRace]_vars

(***************************************************************************)
(* Claims about the resolver (SpecPerm)                                    *)
(***************************************************************************)
Checked == last.op = "check_permission"
Caller == users[last.caller]
\* The caller's effective can_<action> list holds the target role.
InEffectiveList(user, target_role, action) ==
    LET lst == get_user_permissions(user)["can_" \o action]
    IN  lst # None /\ target_role \in Val(lst)
EffectiveManageAll(user) ==
    get_user_permissions(user)["can_manage_all"] = Some(TRUE)
StoredOverride(id) == Get(USER_CUSTOM_PERMISSIONS, id, EmptyDict)

\* C1: a teacher is denied each of create, view, update and delete on the
\* admin role, whatever override is stored for that teacher.
C1_TeacherNeverManagesAdmin ==
    (Checked /\ get_user_role(Caller) = TEACHER /\ last.target = ADMIN
        /\ last.arg \in Actions)
    => last.outcome = "False"

C1_Witness ==
    /\ Checked /\ get_user_role(Caller) = TEACHER
    /\ last.target = ADMIN /\ last.arg = "update"
    /\ "can_update" \in DOMAIN StoredOverride(last.caller)
    /\ StoredOverride(last.caller)["can_update"] = Some({ADMIN})
    /\ EffectiveManageAll(Caller)
    /\ last.outcome = "False"

\* C2 as stated: an admin-role user with effective can_manage_all = true is
\* denied every action on the admin role.
C2_AdminManageAllDeniedOnAdmin ==
    (Checked /\ get_user_role(Caller) = ADMIN /\ EffectiveManageAll(Caller)
        /\ last.target = ADMIN /\ last.arg \in Actions)
    => ~Truthy(last.outcome)

\* C2 amended: for an admin-role user with effective can_manage_all = true,
\* an action on the admin role is allowed exactly when admin is in the
\* effective can_<action> list; can_manage_all alone never authorizes it.
C2_ManageAllNeverAuthorizesAdmin ==
    (Checked /\ get_user_role(Caller) = ADMIN /\ EffectiveManageAll(Caller)
        /\ last.target = ADMIN /\ last.arg \in Actions)
    => (Truthy(last.outcome) <=> InEffectiveList(Caller, ADMIN, last.arg))

C2_Witness ==
    /\ Checked /\ get_user_role(Caller) = ADMIN /\ EffectiveManageAll(Caller)
    /\ last.target = ADMIN /\ last.arg = "delete"
    /\ ~InEffectiveList(Caller, ADMIN, "delete")
    /\ last.outcome = "False"

\* C3: every field of the effective permissions is the override's value when
\* the override holds the field (an empty list included) and the base
\* role's value otherwise; the two are never united.
C3_OverrideReplacesField ==
    last.op = "get_user_permissions"
    => /\ DOMAIN last.outcome = PermFields
       /\ \A f \in PermFields :
            last.outcome[f] =
                IF f \in DOMAIN StoredOverride(last.caller)
                THEN StoredOverride(last.caller)[f]
                ELSE ROLE_PERMISSIONS[get_user_role(Caller)][f]

C3_Witness ==
    /\ last.op = "get_user_permissions"
    /\ get_user_role(Caller) = TEACHER
    /\ DOMAIN StoredOverride(last.caller) = {"can_create"}
    /\ StoredOverride(last.caller)["can_create"] = Some({})
    /\ last.outcome["can_create"] = Some({})
    /\ last.outcome["can_view"] = Some({TEACHER, STUDENT})

\* C4: outside the teacher/admin rule, check_permission returns true iff the
\* target role is in the effective can_<action> list or can_manage_all is
\* true and the target is not admin; an unknown action returns false.
C4_DecisionFormula ==
    (Checked /\ ~(get_user_role(Caller) = TEACHER /\ last.target = ADMIN))
    => IF last.arg \in Actions
       THEN (last.outcome = "True")
            <=> \/ InEffectiveList(Caller, last.target, last.arg)
                \/ (EffectiveManageAll(Caller) /\ last.target # ADMIN)
       ELSE last.outcome = "False"

\* C25: check_permission of utils/user_managemet.py returns, for every user,
\* override, target role and action, what check_permission of api/v1/user.py
\* returns; so it denies a teacher every action on the admin role whatever
\* override is stored.
C25_ImplementationsAgree ==
    last.op = "user_managemet.check_permission"
    => /\ last.outcome = check_permission(Caller, last.target, last.arg)
       /\ (get_user_role(Caller) = TEACHER /\ last.target = ADMIN)
          => last.outcome = "False"

(***************************************************************************)
(* Claims about the user-management handlers (Spec)                        *)
(***************************************************************************)
\* C5: update_user is authorized whenever caller and target are the same
\* user, whatever check_permission says; delete_user and create_user succeed
\* only when check_permission allows the action on the target's role.
C5_SelfUpdateOnlyBypass ==
    [][/\ (last'.op = "update_user" /\ last'.caller = last'.target
            /\ last'.target \in DOMAIN users)
          => last'.outcome = "ok"
       /\ (last'.op = "delete_user" /\ last'.outcome = "ok")
          => Truthy(check_permission(users[last'.caller],
                                     get_user_role(users[last'.target]), "delete"))
       /\ (last'.op = "create_user" /\ last'.outcome = "ok")
          => Truthy(check_permission(users[last'.caller], last'.arg, "create"))
      ]_vars

\* A student, denied `update` on the student role, has updated its own record.
C5_Witness ==
    /\ last.op = "update_user" /\ last.caller = last.target /\ last.outcome = "ok"
    /\ last.arg.role = None /\ last.arg.is_active = Some(FALSE)
    /\ get_user_role(users[last.caller]) = STUDENT
    /\ ~users[last.caller].is_active
    /\ ~Truthy(check_permission(users[last.caller], STUDENT, "update"))
    /\ ~Truthy(check_permission(users[last.caller], STUDENT, "delete"))

\* C6: a successful assign_custom_permissions(user_id, D) leaves the stored
\* override with D's value in every field D sets and with the previous value
\* in every previously stored field D does not set.
C6_AssignReplacesOnlySetFields ==
    [][(last'.op = "assign_custom_permissions" /\ last'.outcome = "ok")
       => LET old == StoredOverride(last'.target)
              new == USER_CUSTOM_PERMISSIONS'[last'.target]
              D == last'.arg
          IN  /\ \A f \in DOMAIN D : f \in DOMAIN new /\ new[f] = D[f]
              /\ \A f \in DOMAIN old \ DOMAIN D :
                    f \in DOMAIN new /\ new[f] = old[f]
      ]_vars

\* The users of the given roles.
UsersOfRoles(roles) == {id \in DOMAIN users : users[id].role \in roles}

Insufficient == Forbidden(<<"Insufficient permissions to list users">>)
CannotView(role) == Forbidden(<<"You cannot view", role, "users">>)

\* C18 as stated: list_users without a role filter shows an admin the users
\* of the roles admin and teacher, shows a teacher the students only, and
\* denies a student with 'Insufficient permissions to list users'.
C18_AdminSeesAdminsAndTeachers ==
    (last.op = "list_users" /\ last.arg = None)
    => LET role == get_user_role(users[last.caller])
       IN  CASE role = ADMIN ->
                  /\ last.outcome.status = 200
                  /\ last.outcome.users = UsersOfRoles({ADMIN, TEACHER})
             [] role = TEACHER ->
                  /\ last.outcome.status = 200
                  /\ last.outcome.users = UsersOfRoles({STUDENT})
             [] OTHER -> last.outcome = Insufficient

\* C18, amended: list_users without a role filter shows an admin the users of
\* every role (admin, teacher and student), shows a teacher the students
\* only, and denies a student with 'Insufficient permissions to list users',
\* no user being returned.
C18_AdminSeesAllRoles ==
    (last.op = "list_users" /\ last.arg = None)
    => LET role == get_user_role(users[last.caller])
       IN  CASE role = ADMIN ->
                  /\ last.outcome.status = 200
                  /\ last.outcome.users = UsersOfRoles({ADMIN, TEACHER, STUDENT})
             [] role = TEACHER ->
                  /\ last.outcome.status = 200
                  /\ last.outcome.users = UsersOfRoles({STUDENT})
             [] OTHER -> last.outcome = Insufficient /\ last.outcome.users = {}

\* An admin who lists without a filter is shown a student.
C18_Witness ==
    /\ last.op = "list_users" /\ last.arg = None
    /\ get_user_role(users[last.caller]) = ADMIN
    /\ last.outcome.status = 200
    /\ \E id \in last.outcome.users : users[id].role = STUDENT

\* The roles list_users lets a caller of a role see.
Visible(role) ==
    CASE role = ADMIN -> {ADMIN, TEACHER, STUDENT}
      [] role = TEACHER -> {STUDENT}
      [] OTHER -> {}

\* C19: list_users with a role filter R returns exactly the users of role R
\* when the caller may see R; denies with 'You cannot view R users' when the
\* caller may list but not see R; and denies a student with 'Insufficient
\* permissions to list users' whatever R is; the two denials differ.
C19_RoleFilter ==
    (last.op = "list_users" /\ last.arg # None)
    => LET role == get_user_role(users[last.caller])
           R == Val(last.arg)
       IN  /\ CannotView(R) # Insufficient
           /\ IF role = STUDENT THEN last.outcome = Insufficient
              ELSE IF R \in Visible(role)
              THEN /\ last.outcome.status = 200
                   /\ last.outcome.users = UsersOfRoles({R})
              ELSE last.outcome = CannotView(R)

\* A teacher who asks for the teachers is told that teachers cannot be viewed.
C19_Witness ==
    /\ last.op = "list_users" /\ last.arg = Some(TEACHER)
    /\ get_user_role(users[last.caller]) = TEACHER
    /\ last.outcome = CannotView(TEACHER)
    /\ \E id \in DOMAIN users : id # last.caller /\ users[id].role = TEACHER

(***************************************************************************)
(* Claims about the review store (SpecReviews)                             *)
(***************************************************************************)
RowsWithKey(rows, key) == {r \in rows : r.platform_review_id = key}

\* C7: no two rows ever share a platform_review_id, and a create_review
\* whose platform_review_id is already stored fails with the duplicate-key
\* error and leaves the table, hence the one row with that key, as it was.
C7_PlatformReviewIdUnique ==
    /\ [](\A r1, r2 \in reviews :
            r1 # r2 => r1.platform_review_id # r2.platform_review_id)
    /\ [][(last'.op = "create_review" /\ RowsWithKey(reviews, last'.arg) # {})
           => /\ last'.outcome = "IntegrityError"
              /\ reviews' = reviews
              /\ Cardinality(RowsWithKey(reviews', last'.arg)) = 1
          ]_vars

C7_Witness ==
    /\ last.op = "create_review" /\ last.outcome = "IntegrityError"
    /\ Cardinality(RowsWithKey(reviews, last.arg)) = 1
    /\ Cardinality(reviews) = 2

\* The active rows of an entity that carry a rating.
Rated(entity_identifier) ==
    {r \in reviews : /\ r.entity_identifier = entity_identifier
                     /\ r.is_active /\ r.rating # None}

\* C10: get_average_rating(E) is the mean of the ratings of E's active rated
\* reviews when there is one, and None only when there is none.
C10_AverageIsMean ==
    last.op = "get_average_rating"
    => LET Q == Rated(last.arg)
       IN  IF Q = {} THEN last.outcome = None
           ELSE /\ last.outcome # None
                /\ Val(last.outcome).num * Cardinality(Q)
                     = Val(last.outcome).den * SumRating(Q)

\* The ids of the rows of a result.
IdsOf(result) == {result[i].id : i \in 1..Len(result)}

\* The arguments of get_reviews with defaults but for is_active.
WithActive(active) == [GetReviewsDefaults EXCEPT !.is_active = active]

\* No read returns the review with this id.
Unreadable(review_id) ==
    /\ get_review_by_id(review_id) = {}
    /\ \A active \in BOOLEAN :
         \A result \in get_reviews(WithActive(active)) : review_id \notin IdsOf(result)

\* C13: right after a soft delete_review of a stored review, get_reviews
\* with default arguments does not return it and get_reviews(is_active=False)
\* does; right after a hard delete_review no read returns it; and a review
\* that no read returns, its id once given out, is returned by no read after
\* any further step.
C13_SoftHiddenHardGone ==
    [][\A review_id \in ReviewIds :
         /\ \A now \in FrozenClock :
              /\ last'.op = "delete_review" /\ RowsById(review_id) # {}
              /\ delete_review(review_id, TRUE, now)
              => /\ \A result \in get_reviews(GetReviewsDefaults)' :
                      review_id \notin IdsOf(result)
                 /\ \A result \in get_reviews(WithActive(FALSE))' :
                      review_id \in IdsOf(result)
                 /\ get_reviews(WithActive(FALSE))' # {}
         /\ \A now \in FrozenClock :
              /\ last'.op = "delete_review" /\ RowsById(review_id) # {}
              /\ delete_review(review_id, FALSE, now)
              => Unreadable(review_id)'
         /\ (review_id < next_id /\ reviews' # reviews /\ Unreadable(review_id))
            => Unreadable(review_id)'
      ]_vars

\* A hard delete_review has removed one of two reviews, the other of which
\* had been soft-deleted.
C13_Witness ==
    /\ last.op = "delete_review" /\ last.arg = "hard" /\ last.outcome = "True"
    /\ next_id = 3
    /\ \E review_id \in ReviewIds : Unreadable(review_id) /\ review_id < next_id
    /\ \E r \in reviews : ~r.is_active

\* The active rows of the table.
ActiveRows == {r \in reviews : r.is_active}

\* C14: in every state, the reads and aggregations called with their default
\* arguments return only active rows and count only active rows.
C14_DefaultsSeeOnlyActive ==
    /\ \A result \in get_reviews(GetReviewsDefaults) :
         \A i \in 1..Len(result) : result[i].is_active
    /\ \A e \in Entities :
         \A result \in get_reviews_by_entity(e, None, DefaultLimit) :
            \A i \in 1..Len(result) : result[i].is_active
    /\ \A page \in get_reviews_paginated(1, DefaultPageSize, None, None, None) :
         /\ \A i \in 1..Len(page.reviews) : page.reviews[i].is_active
         /\ page.total = Cardinality(ActiveRows)
    /\ count_reviews(None, None, TRUE) = Cardinality(ActiveRows)
    /\ \A e \in Entities :
         LET avg == get_average_rating(e)
             Q == {r \in ActiveRows : r.entity_identifier = e /\ r.rating # None}
         IN  avg # None => /\ Val(avg).den = Cardinality(Q)
                           /\ Val(avg).num = SumRating(Q)
    /\ \A e \in Entities :
         LET dist == get_platform_distribution(e)
         IN  \A p \in DOMAIN dist :
                dist[p] = Cardinality({r \in ActiveRows :
                                          r.entity_identifier = e /\ r.platform = p})

\* An inactive and an active review of one entity and one platform, both rated.
C14_Witness ==
    /\ Cardinality(reviews) = 2
    /\ \E r1, r2 \in reviews :
         /\ ~r1.is_active /\ r2.is_active
         /\ r1.entity_identifier = r2.entity_identifier
         /\ r1.platform = r2.platform
         /\ r1.rating # None /\ r2.rating # None
         /\ count_reviews(None, None, TRUE) = 1

(***************************************************************************)
(* Claims about concurrent creates (SpecCreateRace)                        *)
(***************************************************************************)
SessionsWithKey(key) == {i \in DOMAIN sessions : sessions[i].data.platform_review_id = key}
Finished(i) == sessions[i].pc \in {"returned", "failed"}
Won(i) == sessions[i].pc \in {"committed", "returned"}

\* C8: of the concurrent create_review calls with one platform_review_id at
\* most one commits; once all have ended exactly one has succeeded and every
\* other has failed with the duplicate-key error; and from the winner's
\* commit on the stored row with that key is the winner's row.
C8_OneWinner ==
    \A key \in PlatformReviewIds :
        LET S == SessionsWithKey(key)
            W == {i \in S : Won(i)}
        IN  /\ Cardinality(W) <= 1
            /\ (S # {} /\ \A i \in S : Finished(i))
               => /\ Cardinality(W) = 1
                  /\ \A i \in S \ W : sessions[i].outcome = "IntegrityError"
                  /\ \A i \in W : sessions[i].outcome = "ok"
            /\ \A i \in W :
                 RowsWithKey(reviews, key) = {Review(sessions[i].id, sessions[i].data, FrozenNow)}

\* Two requests with the same key and different ratings have both ended.
C8_Witness ==
    /\ Cardinality(DOMAIN sessions) >= 2
    /\ \E i, j \in DOMAIN sessions :
         /\ sessions[i].data.platform_review_id = sessions[j].data.platform_review_id
         /\ sessions[i].data.rating # sessions[j].data.rating
         /\ sessions[i].pc = "returned" /\ sessions[i].outcome = "ok"
         /\ sessions[j].pc = "failed" /\ sessions[j].outcome = "IntegrityError"
         /\ reviews = {Review(sessions[i].id, sessions[i].data, FrozenNow)}

(***************************************************************************)
(* Claims about a check concurrent with an assignment (SpecPermRace)       *)
(***************************************************************************)
\* C9: the override a permission check reads, and the permissions it merges
\* from it, are those of one override that was stored whole: the previous
\* one or a request's new one, never fields of both.
C9_NoTornOverride ==
    /\ tasks.reader.pc \in {"got", "merged"}
       => tasks.reader.custom \in tasks.written
    /\ tasks.reader.pc = "merged"
       => \E w \in tasks.written :
            tasks.reader.perms = DictMerge(ROLE_PERMISSIONS[TEACHER], w)

\* The check read the previous override, which shares no field with the new
\* one stored before the check merged.
C9_Witness ==
    /\ tasks.reader.pc = "merged"
    /\ tasks.writer.left < MaxWrites
    /\ tasks.reader.custom # Get(USER_CUSTOM_PERMISSIONS, "u2", EmptyDict)
    /\ DOMAIN tasks.reader.custom # {}
    /\ DOMAIN tasks.reader.custom \cap DOMAIN USER_CUSTOM_PERMISSIONS["u2"] = {}

(***************************************************************************)
(* Claims about update_review (SpecUpdate)                                 *)
(***************************************************************************)
\* C12: update_review on an existing review leaves every other review as it
\* was, keeps every field of the review that is neither in partial_data nor
\* updated_at, and, when it succeeds, gives the fields of partial_data their
\* new values and updated_at the time of the update.
C12_UpdateChangesOnlyGivenFields ==
    [][last'.op = "update_review" /\ RowsById(tasks.review_id) # {}
       => LET old == CHOOSE r \in RowsById(tasks.review_id) : TRUE
              d == tasks.review_data
          IN  /\ \A r \in reviews : r.id # old.id => r \in reviews'
              /\ Cardinality(reviews') = Cardinality(reviews)
              /\ \E new \in reviews' :
                   /\ new.id = old.id
                   /\ \A c \in DOMAIN old \ (DOMAIN d \cup {"updated_at"}) :
                        new[c] = old[c]
                   /\ last'.outcome = "ok"
                      => /\ \A c \in DOMAIN d : new[c] = d[c]
                         /\ new.updated_at = tasks.now
      ]_vars

C12_Witness ==
    /\ last.op = "update_review" /\ last.outcome = "ok"
    /\ DOMAIN tasks.review_data = {"verified"}
    /\ Cardinality(reviews) = 2
    /\ \E r \in reviews :
         /\ r.id = tasks.review_id
         /\ r.rating = Some(MaxRating) /\ ~r.verified /\ ~r.is_active
         /\ r.updated_at = MaxTime


(***************************************************************************)
(* Claims about the read operations (SpecQuery)                            *)
(***************************************************************************)
\* s lists its rows by review_date, most recent first.
Descending(s) == \A i, j \in 1..Len(s) : i < j => s[i].review_date >= s[j].review_date

\* result is the window of limit rows after offset rows of the rows of F in
\* some order by review_date, most recent first.
IsWindowOf(result, F, limit, offset) ==
    \E o \in Orderings(F) :
        /\ Descending(o)
        /\ Len(result) = Min(limit, IF Len(o) > offset THEN Len(o) - offset ELSE 0)
        /\ \A i \in 1..Len(result) : result[i] = o[offset + i]

\* The row satisfies every filter the call supplies.
Satisfies(r, f) ==
    /\ r.is_active = f.is_active
    /\ f.entity_type # None => r.entity_type = Val(f.entity_type)
    /\ f.entity_identifier # None => r.entity_identifier = Val(f.entity_identifier)
    /\ f.platform # None => r.platform = Val(f.platform)
    /\ f.min_rating # None => r.rating # None /\ Val(r.rating) >= Val(f.min_rating)
    /\ f.max_rating # None => r.rating # None /\ Val(r.rating) <= Val(f.max_rating)
    /\ f.verified_only => r.verified

\* C16: get_reviews returns the limit/offset window, in review_date
\* descending order, of exactly the rows that satisfy every supplied filter
\* (exact match on entity_type, entity_identifier and platform, inclusive
\* rating bounds, verified rows only on verified_only, is_active as asked).
C16_FiltersConjunctive ==
    (tasks.op = "get_reviews" /\ last.op = "get_reviews")
    => IsWindowOf(last.outcome, {r \in reviews : Satisfies(r, tasks.args)},
                  tasks.args.limit, tasks.args.offset)

\* The active rows that match the filters of a get_reviews_paginated call.
PageMatches(a) ==
    {r \in reviews :
        /\ r.is_active
        /\ a.entity_type # None => r.entity_type = Val(a.entity_type)
        /\ a.platform # None => r.platform = Val(a.platform)
        /\ a.min_rating # None => r.rating # None /\ Val(r.rating) >= Val(a.min_rating)}

\* C17: get_reviews_paginated returns as total the number of active rows
\* matching the filters, whatever the page and the page size, and as rows
\* those at positions (page-1)*page_size .. page*page_size-1 of the matching
\* rows in review_date descending order.
C17_TotalAndWindow ==
    (tasks.op = "get_reviews_paginated" /\ last.op = "get_reviews_paginated")
    => /\ last.outcome.total = Cardinality(PageMatches(tasks.args))
       /\ IsWindowOf(last.outcome.reviews, PageMatches(tasks.args),
                     tasks.args.page_size,
                     (tasks.args.page - 1) * tasks.args.page_size)

\* Page 2 of size 1 holds the older of the two rows that match a rating
\* filter.
C17_Witness ==
    /\ tasks.op = "get_reviews_paginated" /\ last.op = "get_reviews_paginated"
    /\ tasks.args.page = 2 /\ tasks.args.page_size = 1
    /\ tasks.args.min_rating # None
    /\ last.outcome.total = 2
    /\ Len(last.outcome.reviews) = 1
    /\ last.outcome.reviews[1].review_date < MaxTime

\* C15: on an empty store, bulk_create_reviews of a batch with pairwise
\* distinct platform_review_id followed by get_reviews with default filters
\* and a limit of at least the batch size returns the rows of the batch,
\* each once, in non-increasing review_date order.
C15_BulkCreateThenQuery ==
    (tasks.op = "bulk_create_reviews" /\ last.op = "get_reviews")
    => LET batch == tasks.args.reviews_data
           rows == {Review(i, batch[i], tasks.args.now) : i \in 1..Len(batch)}
       IN  (\A i, j \in 1..Len(batch) :
               i # j => batch[i].platform_review_id # batch[j].platform_review_id)
           => /\ Len(last.outcome) = Len(batch)
              /\ {last.outcome[i] : i \in 1..Len(last.outcome)} = rows
              /\ Descending(last.outcome)

\* A batch of two, the older review first, comes back the other way round.
C15_Witness ==
    /\ tasks.op = "bulk_create_reviews" /\ last.op = "get_reviews"
    /\ Len(tasks.args.reviews_data) = 2
    /\ tasks.args.reviews_data[1].review_date < tasks.args.reviews_data[2].review_date
    /\ Len(last.outcome) = 2
    /\ last.outcome[1].id = 2 /\ last.outcome[2].id = 1

\* C20: get_platform_distribution(E) has a key exactly for the platforms with
\* an active review of E, with the number of those reviews, which is at least
\* one, as its value.
C20_DistributionIsSparse ==
    (tasks.op = "get_platform_distribution" /\ last.op = "get_platform_distribution")
    => LET E == tasks.args.entity_identifier
           Count(p) == Cardinality({r \in reviews : /\ r.entity_identifier = E
                                                    /\ r.platform = p /\ r.is_active})
           dist == last.outcome
       IN  /\ DOMAIN dist \subseteq Platform
           /\ \A p \in Platform :
                IF Count(p) = 0 THEN p \notin DOMAIN dist
                ELSE p \in DOMAIN dist /\ dist[p] = Count(p)
           /\ \A p \in DOMAIN dist : dist[p] >= 1

\* E has an active review on one platform and only an inactive one on the
\* other.
C20_Witness ==
    /\ tasks.op = "get_platform_distribution" /\ last.op = "get_platform_distribution"
    /\ DOMAIN last.outcome = {"google"} /\ last.outcome["google"] = 1
    /\ \E r \in reviews : /\ r.entity_identifier = tasks.args.entity_identifier
                          /\ r.platform = "yelp" /\ ~r.is_active


(***************************************************************************)
(* Claims about reading page after page (SpecScan)                         *)
(***************************************************************************)
\* C11: once the client has read the pages 1..ceil(total/page_size), every
\* page but the last holds page_size rows and the last the remainder, no row
\* is on two pages, and the pages together hold exactly the active rows.
C11_PagesPartition ==
    (/\ tasks.op = "scan" /\ tasks.pages # <<>>
     /\ Len(tasks.pages) >= TotalPages(tasks.pages[1].total, tasks.page_size))
    => LET total == tasks.pages[1].total
           n == TotalPages(total, tasks.page_size)
           Rows(k) == {tasks.pages[k].reviews[i] : i \in 1..Len(tasks.pages[k].reviews)}
       IN  /\ total = Cardinality({r \in reviews : r.is_active})
           /\ \A k \in 1..n :
                Len(tasks.pages[k].reviews)
                  = IF k < n THEN tasks.page_size
                    ELSE total - (n - 1) * tasks.page_size
           /\ \A k, l \in 1..n : k # l => Rows(k) \cap Rows(l) = {}
           /\ UNION {Rows(k) : k \in 1..n} = {r \in reviews : r.is_active}


(***************************************************************************)
(* Claims about one write request on a stored table (SpecWrite)            *)
(***************************************************************************)
\* The rows whose value under every key of the filter equals the filter's.
ExactMatches(filters) == {r \in reviews : \A k \in DOMAIN filters : r[k] = filters[k]}

\* C21: bulk_update_reviews(filter_map, update_map) leaves every row that
\* does not match every key of filter_map as it was and adds or removes no
\* row; when it returns, it returns the number of matching rows and every
\* matching row has the values of update_map in the fields of update_map,
\* the time of the call in updated_at and its prior value in every other
\* field; it fails, the table then unchanged, only when the update would give
\* two rows one platform_review_id.
C21_BulkUpdateExactMatch ==
    [][(tasks.op = "bulk_update_reviews" /\ last'.op = "bulk_update_reviews")
       => LET f == tasks.args.filters
              d == tasks.args.update_data
              M == ExactMatches(f)
          IN  /\ \A r \in reviews \ M : r \in reviews'
              /\ {r.id : r \in reviews'} = {r.id : r \in reviews}
              /\ Cardinality(reviews') = Cardinality(reviews)
              /\ last'.outcome # None
                 => /\ last'.outcome = Some(Cardinality(M))
                    /\ \A r \in M :
                         \E new \in reviews' :
                            /\ new.id = r.id
                            /\ \A c \in DOMAIN r :
                                 new[c] = IF c \in DOMAIN d THEN d[c]
                                          ELSE IF c = "updated_at" THEN tasks.args.now
                                          ELSE r[c]
              /\ last'.outcome = None
                 => /\ reviews' = reviews
                    /\ "platform_review_id" \in DOMAIN d
                    /\ \/ Cardinality(M) >= 2
                       \/ \E r \in reviews \ M :
                             r.platform_review_id = d.platform_review_id /\ M # {}
      ]_vars

\* A filter of two keys matched one of two rows of an entity, which was
\* made inactive at the time of the call; the other row stayed as created.
C21_Witness ==
    /\ tasks.op = "bulk_update_reviews" /\ last.op = "bulk_update_reviews"
    /\ DOMAIN tasks.args.filters = {"entity_identifier", "platform"}
    /\ tasks.args.update_data = [is_active |-> FALSE]
    /\ tasks.args.now = MaxTime
    /\ last.outcome = Some(1)
    /\ \E r1, r2 \in reviews :
         /\ r1.id # r2.id
         /\ r1.entity_identifier = r2.entity_identifier
         /\ r1.platform = "google" /\ ~r1.is_active /\ r1.updated_at = MaxTime
         /\ r2.platform = "yelp" /\ r2.is_active /\ r2.updated_at = 1

\* The rows of an entity, on the platform when one is given.
RowsOfEntity(entity_identifier, platform) ==
    {r \in reviews : /\ r.entity_identifier = entity_identifier
                     /\ platform # None => r.platform = Val(platform)}

\* C22: bulk_delete_reviews(entity_identifier, platform?, soft) leaves every
\* row of another entity, or of another platform when one is given, as it
\* was; with soft=true every row of the entity (and platform) stays stored
\* with is_active=false and no row is removed; with soft=false exactly those
\* rows are removed; and the call returns the number of those rows.
C22_BulkDeleteExactRows ==
    [][(tasks.op = "bulk_delete_reviews" /\ last'.op = "bulk_delete_reviews")
       => LET M == RowsOfEntity(tasks.args.entity_identifier, tasks.args.platform)
          IN  /\ \A r \in reviews \ M : r \in reviews'
              /\ last'.outcome = Cardinality(M)
              /\ IF tasks.args.soft
                 THEN /\ {r.id : r \in reviews'} = {r.id : r \in reviews}
                      /\ Cardinality(reviews') = Cardinality(reviews)
                      /\ \A r \in M :
                           \E new \in reviews' :
                              /\ new.id = r.id /\ ~new.is_active
                              /\ \A c \in DOMAIN r \ {"is_active", "updated_at"} :
                                   new[c] = r[c]
                 ELSE reviews' = reviews \ M
      ]_vars

\* A soft delete of an entity's reviews on one platform has made the one row
\* of that platform inactive and left the entity's row of the other platform
\* active.
C22_Witness ==
    /\ tasks.op = "bulk_delete_reviews" /\ last.op = "bulk_delete_reviews"
    /\ tasks.args.soft /\ tasks.args.platform = Some("google")
    /\ tasks.args.now = MaxTime
    /\ last.outcome = 1
    /\ \E r1, r2 \in reviews :
         /\ r1.entity_identifier = tasks.args.entity_identifier
         /\ r2.entity_identifier = tasks.args.entity_identifier
         /\ r1.platform = "google" /\ ~r1.is_active /\ r1.updated_at = MaxTime
         /\ r2.platform = "yelp" /\ r2.is_active

\* C23: update_review and delete_review called with an id that no stored row
\* has return None, respectively False, and leave the table as it was.
C23_NotFoundChangesNothing ==
    [][/\ (/\ tasks.op = "update_review" /\ last'.op = "update_review"
           /\ \A r \in reviews : r.id # tasks.args.review_id)
          => last'.outcome = "None" /\ reviews' = reviews /\ next_id' = next_id
       /\ (/\ tasks.op = "delete_review" /\ last'.op = "delete_review"
           /\ \A r \in reviews : r.id # tasks.args.review_id)
          => last'.outcome = "False" /\ reviews' = reviews /\ next_id' = next_id
      ]_vars

\* A hard delete_review of an id that is not stored has returned False, the
\* one stored row, an active one, being still there.
C23_Witness ==
    /\ tasks.op = "delete_review" /\ last.op = "delete_review"
    /\ ~tasks.args.soft
    /\ last.outcome = "False"
    /\ Cardinality(reviews) = 1
    /\ \A r \in reviews : r.id # tasks.args.review_id /\ r.is_active

\* C29: a bulk_create_reviews whose batch holds an item with the
\* platform_review_id of a stored row or of another item of the batch fails
\* with the duplicate-key error and leaves the table as it was, none of the
\* batch's rows being stored; any other batch is stored whole, one row for
\* every item.
C29_BulkCreateAllOrNothing ==
    [][(tasks.op = "bulk_create_reviews" /\ last'.op = "bulk_create_reviews")
       => LET batch == tasks.args.reviews_data
              n == Len(batch)
              duplicate ==
                 \/ \E i \in 1..n : \E r \in reviews :
                       r.platform_review_id = batch[i].platform_review_id
                 \/ \E i, j \in 1..n :
                       i # j /\ batch[i].platform_review_id = batch[j].platform_review_id
          IN  IF duplicate
              THEN /\ last'.outcome = "IntegrityError"
                   /\ reviews' = reviews
                   /\ \A r \in reviews' : r.id < next_id
              ELSE /\ last'.outcome = "ok"
                   /\ reviews \subseteq reviews'
                   /\ Cardinality(reviews') = Cardinality(reviews) + n
                   /\ \A i \in 1..n :
                        \E r \in reviews' \ reviews :
                           /\ r.id >= next_id
                           /\ r = Review(r.id, batch[i], tasks.args.now)
      ]_vars

\* A batch of two whose second item has the key of the stored row has failed:
\* the first item, whose key was free, is not stored either.
C29_Witness ==
    /\ tasks.op = "bulk_create_reviews" /\ last.op = "bulk_create_reviews"
    /\ last.outcome = "IntegrityError"
    /\ Len(tasks.args.reviews_data) = 2
    /\ Cardinality(reviews) = 1
    /\ \E r \in reviews :
         /\ r.platform_review_id = tasks.args.reviews_data[2].platform_review_id
         /\ r.platform_review_id # tasks.args.reviews_data[1].platform_review_id
    /\ next_id = 2

(***************************************************************************)
(* Claims about the resolver on stored user documents (SpecRole)           *)
(***************************************************************************)
\* The user document names a role that has no entry in ROLE_PERMISSIONS.
NoMatrixEntry(user) == "role" \in DOMAIN user /\ user.role \notin DOMAIN ROLE_PERMISSIONS

\* C24: for a user whose role has no entry in ROLE_PERMISSIONS,
\* get_user_permissions fails with the error of the role lookup and yields
\* no permission set, empty or not, and check_permission fails with it and
\* makes no decision.
C24_UnknownRoleFails ==
    /\ (last.op = "get_user_permissions" /\ NoMatrixEntry(Caller))
       => /\ Raised(last.outcome)
          /\ DOMAIN last.outcome \cap PermFields = {}
    /\ (last.op = "check_permission" /\ NoMatrixEntry(Caller))
       => last.outcome \notin {"True", "False", "None"}

\* A check for a user of an unknown role, for whom an override granting
\* everything on students is stored, has failed.
C24_Witness ==
    /\ last.op = "check_permission" /\ NoMatrixEntry(Caller)
    /\ last.target = STUDENT /\ last.arg = "update"
    /\ "can_update" \in DOMAIN StoredOverride(last.caller)
    /\ StoredOverride(last.caller)["can_update"] = Some({STUDENT})
    /\ last.outcome = "ValueError"

(***************************************************************************)
(* Claims about roles and overrides over the handlers' life cycle (Spec)   *)
(***************************************************************************)
\* C26: a user gets a role R, on creation or by an update, only through a
\* call whose caller passes check_permission for R (for some action); and a
\* call that makes a user's role admin is an admin's.
C26_RoleOnlyThroughPermission ==
    [][\A id \in DOMAIN users' :
          (id \notin DOMAIN users \/ users'[id].role # users[id].role)
          => /\ \E a \in Actions :
                   Truthy(check_permission(users[last'.caller], users'[id].role, a))
             /\ users'[id].role = ADMIN => get_user_role(users[last'.caller]) = ADMIN
      ]_vars

\* C27: every user id that has an entry in USER_CUSTOM_PERMISSIONS is the id
\* of a stored user whose role is teacher.
C27_OverridesOnlyForTeachers ==
    \A id \in DOMAIN USER_CUSTOM_PERMISSIONS :
        id \in DOMAIN users /\ get_user_role(users[id]) = TEACHER

(***************************************************************************)
(* Claims about list_users under an override (SpecList)                    *)
(***************************************************************************)
\* C28: every user list_users returns has a role R for which
\* check_permission(caller, R, 'view') is true, whatever override is stored
\* for the caller.
C28_ListedRolesAreViewable ==
    (last.op = "list_users" /\ last.outcome.status = 200)
    => \A id \in last.outcome.users :
          Truthy(check_permission(Caller, get_user_role(users[id]), "view"))

(***************************************************************************)
(* Claims relating the aggregations of an entity (SpecQuery)               *)
(***************************************************************************)
RECURSIVE SumCounts(_)
\* The sum of the counts of a distribution.
SumCounts(dist) ==
    IF DOMAIN dist = {} THEN 0
    ELSE LET p == CHOOSE x \in DOMAIN dist : TRUE
         IN  dist[p] + SumCounts([q \in DOMAIN dist \ {p} |-> dist[q]])

\* The entity identifiers of the stored reviews.
StoredEntities == {r.entity_identifier : r \in reviews}

\* C30: for every entity E that has a stored review, the counts of
\* get_platform_distribution(E) add up to count_reviews(entity_identifier=E),
\* which is also the number of rows get_reviews_by_entity(E) returns under a
\* limit of at least that count.
C30_DistributionSumsToCount ==
    \A E \in StoredEntities :
        LET count == count_reviews(Some(E), None, TRUE)
        IN  /\ SumCounts(get_platform_distribution(E)) = count
            /\ \A result \in get_reviews_by_entity(E, None, DefaultLimit) :
                  Len(result) = count

====
